---- MODULE Spec2Model ----
(***************************************************************************)
(* State-machine model of llarp/ev/ev_win32.hpp: the TUN completion port   *)
(* with its worker threads (tun_ev_loop, exit_tun_loop, win32_tun_io) and  *)
(* the socket event loop (llarp_win32_loop).                               *)
(***************************************************************************)
EXTENDS Integers, Sequences, FiniteSets, TLC

\* ------------------------------------------------------------------ bounds
\* logical CPUs reported by GetSystemInfo (add_ev starts 2 threads per CPU)
NumCPU == 1
\* win32_tun_io objects the caller constructs
MaxEps == 2
\* asio_evt_pkt records allocated over a run
MaxPkts == 3
\* queue_write calls over a run
MaxWrites == 2
\* tcp_conn objects created over a run
MaxConns == 2
\* callback invocation counters saturate here
CallCap == 2
\* llarp_udp_io objects the caller passes to udp_listen
MaxUdps == 2
\* exit_tun_loop calls that run to their end over a run
MaxExits == 2
\* pushes of the capacity scenario (more than the queue holds) and the
\* drains interleaved with them
CapPushes == 200
CapDrains == 1
\* pushes and drains of the pacing scenario
PacePushes == 3
PaceDrains == 3
\* stand-in for EV_WRITE_BUF_SZ (sizeof WriteBuffer::buf); payloads are the
\* largest that fits and the smallest that does not
EV_WRITE_BUF_SZ == 2

\* ------------------------------------------------------- program constants
\* CoDelQueue template arguments of LossyWriteQueue_t
DropMs == 5
IntervalMs == 100
MaxSize == 128

Eps == 1 .. MaxEps
Conns == 1 .. MaxConns
\* a tcp_conn not yet constructed; blk is the heap block a live one is
\* allocated in (0: none)
NoConn ==
    [st |-> "none", blk |-> 0, res |-> "none", hasError |-> FALSE,
     ret |-> "none",
     calledConnected |-> FALSE, nConnected |-> 0, nError |-> 0,
     shouldClose |-> FALSE, regFailed |-> FALSE, dels |-> 0,
     usedDeleted |-> FALSE]
Udps == 1 .. MaxUdps
\* a llarp_udp_io not yet passed to udp_listen: impl is whether l->impl is
\* non-null, blk the heap block its udp_listener was allocated in (0: none),
\* dels counts the deletes of its udp_listener
NoUdp ==
    [st |-> "none", impl |-> FALSE, blk |-> 0, ret |-> "none",
     regFailed |-> FALSE, dels |-> 0, usedDeleted |-> FALSE,
     closeRet |-> "none"]
\* the ev_io* of udp listener u; tcp_conn c is endpoint c
UdpEv(u) == MaxConns + u
LoopEps == 1 .. (MaxConns + MaxUdps)
NumThreads == NumCPU * 2
Workers == 1 .. NumThreads
PayloadSizes == {EV_WRITE_BUF_SZ, EV_WRITE_BUF_SZ + 1}
\* the endpoints whose llarp_tun_io has a before_write callback
before_write == [e \in Eps |-> e % 2 = 1]
\* threads that reach a pacing queue: the caller of queue_write (0) and the
\* workers
Threads == 0 .. NumThreads
\* the simulated clock runs this far and advances by half a measurement
\* interval or by a whole one
Horizon == 2 * IntervalMs
ClockSteps == {IntervalMs \div 2, IntervalMs}
\* the completion key ~0 posted by exit_tun_loop
ALLONES == -1

VARIABLES
    tun_event_queue,  \* the global HANDLE: "INVALID_HANDLE_VALUE" or "port"
    portState,        \* the completion port object: "none", "open", "closed"
    portsCreated,     \* completion ports created so far
    poolsStarted,     \* begin_tun_loop calls so far
    kThreadPool,      \* the global HANDLE array: "null", "live" or "freed"
    closeCount,       \* CloseHandle(tun_event_queue) calls so far
    portCloses,       \* those of them made on the handle of a port
    tun_listeners,    \* the global std::list< win32_tun_io* >
    epState,          \* per endpoint: "new", "registered", "deleted"
    epPort,           \* per endpoint: state of the port passed to
                      \* CreateIoCompletionPort ("none" before add_ev)
    wpc,              \* per worker: "none", "wait", "got", "recvpkt", "flush"
                      \* (inside flush_write's Process), "exited"
    cur,              \* per worker: the asio_evt_pkt it holds (0: none)
    pkts,             \* every asio_evt_pkt allocated, by id; st is "pending"
                      \* (with the kernel), "queued" (completion on the
                      \* port), "dequeued" (taken by a worker), "handled"
                      \* (its branch of tun_ev_loop has run); rel counts
                      \* the deletes of the record
    iocp,             \* completion packets queued on the port, FIFO
    wq,               \* per endpoint: m_LossyWriteQueue
    nWrites,          \* queue_write calls so far (tags the payloads)
    now,              \* llarp::time_now_ms()
    exitpc,           \* exit_tun_loop: "idle", "wait", "delete", "done"
    exit_i,           \* the thread-pool size exit_tun_loop computes
    sentinels,        \* shutdown completions posted
    uaf,              \* a worker used a deleted win32_tun_io
    crashed,          \* the process faulted
    qlog,             \* the last queue_write call: endpoint, payload size,
                      \* the payload's number, queue length and dropping
                      \* state its Emplace found, the hook and OS write
                      \* calls the call made itself, in order (trace), and
                      \* the calls of the flush_write that wrote its payload,
                      \* up to that write (issue)
    inq,              \* per endpoint: the threads at work on its queue: the
                      \* caller (0) from its Emplace to the end of its
                      \* Process, a worker inside Process
    qdrops,           \* pushes the queue of endpoint 1 refused
    drained,          \* drains of the queue of endpoint 1: how many, entries
                      \* walked in all, and for the last one its time, the
                      \* queue it found and the slots it handed to the sink;
                      \* since is the time of the earliest drain from which
                      \* on every drained entry waited the target delay or
                      \* longer (-1: the last one waited less), since0 its
                      \* value before the last drain
    upollfd,          \* llarp_win32_loop::upollfd: "null" or "open"
    handlers,         \* the loop's registry, in insertion order
    upollReg,         \* the endpoints registered with upoll
    conns,            \* per tcp_conn: its state and what its callbacks saw
    runpc,            \* run(): "idle", "wait", "dispatch", "returned"
    events,           \* the events of the current upoll_wait still to dispatch
    result,           \* the current upoll_wait's return value
    stopCalled,       \* stop() has been called
    loopUaf,          \* the loop used a deleted endpoint
    udp,              \* per llarp_udp_io: its listener and what the caller saw
    closedOk,         \* endpoints for which close_ev/udp_close returned true
    tickpc,           \* tick(): "idle", "dispatch", "returned"
    reported,         \* the events the current tick's upoll_wait returned
    calls,            \* the endpoint operations the current tick has invoked
    tickRet           \* what the last tick returned

tunvars == <<tun_event_queue, portState, portsCreated, poolsStarted, kThreadPool, closeCount, portCloses,
             tun_listeners, epState, epPort, wpc, cur, pkts, iocp, wq, nWrites,
             now, exitpc, exit_i, sentinels, uaf, crashed, qlog, inq, qdrops,
             drained>>

qvars == <<qlog, inq, qdrops, drained>>

\* every variable of the TUN side but crashed
tunquiet == <<tun_event_queue, portState, portsCreated, poolsStarted, kThreadPool,
              closeCount, portCloses, tun_listeners, epState, epPort, wpc, cur, pkts, iocp,
              wq, nWrites, now, exitpc, exit_i, sentinels, uaf, qvars>>

loopvars == <<upollfd, handlers, upollReg, conns, runpc, events, result,
              stopCalled, loopUaf, udp, closedOk, tickpc, reported, calls,
              tickRet>>

evvars == <<udp, closedOk, tickpc, reported, calls, tickRet>>

vars == <<tunvars, loopvars>>

\* ------------------------------------------------------- write pacing queue
\* WriteBuffer(ptr, sz): an oversized payload leaves an entry of length 0
WriteBuffer(tag, sz) ==
    [timestamp |-> 0,
     bufsz |-> IF sz <= EV_WRITE_BUF_SZ THEN sz ELSE 0,
     tag |-> IF sz <= EV_WRITE_BUF_SZ THEN tag ELSE 0]

\* PutTime: stamps the entry with the current time
PutTime(b, t) == [b EXCEPT !.timestamp = t]

EmptyQueue ==
    [buf |-> <<>>, len |-> 0, firstAbove |-> 0, dropping |-> FALSE,
     dropNext |-> 0, count |-> 0]

\* store b in entry slot i of the queue's fixed array
SetSlot(buf, i, b) ==
    IF i <= Len(buf) THEN [buf EXCEPT ![i] = b] ELSE Append(buf, b)

\* push: the entry is constructed in the next free slot; a full queue drops
Emplace_unbounded(q, b, t) ==
    [q EXCEPT !.buf = SetSlot(q.buf, q.len + 1, PutTime(b, t)),
              !.len = q.len + 1]
Emplace(q, b, t) ==
    IF q.len = MaxSize
    THEN q
    ELSE [q EXCEPT !.buf = SetSlot(q.buf, q.len + 1, PutTime(b, t)),
                   !.len = q.len + 1]

RECURSIVE ISqrtFrom(_, _)
ISqrtFrom(n, r) == IF (r + 1) * (r + 1) > n THEN r ELSE ISqrtFrom(n, r + 1)
ISqrt(n) == ISqrtFrom(n, 0)

\* the Controlled-Delay decision for one entry whose sojourn time is s:
\* the new control state and whether the entry is handed to the sink
CoDelStep_nodrop(q, s, t) == [q |-> q, emit |-> TRUE]
CoDelStep(q, s, t) ==
    LET fa == IF s < DropMs THEN 0
              ELSE IF q.firstAbove = 0 THEN t + IntervalMs
              ELSE q.firstAbove
        ok == s >= DropMs /\ q.firstAbove # 0 /\ t >= q.firstAbove
        q1 == [q EXCEPT !.firstAbove = fa]
    IN  IF q.dropping
        THEN IF ~ok
             THEN [q |-> [q1 EXCEPT !.dropping = FALSE], emit |-> TRUE]
             ELSE IF t >= q.dropNext
             THEN [q |-> [q1 EXCEPT !.count = q.count + 1,
                                    !.dropNext = q.dropNext
                                       + IntervalMs \div ISqrt(q.count + 1)],
                   emit |-> FALSE]
             ELSE [q |-> q1, emit |-> TRUE]
        ELSE IF ok
             THEN [q |-> [q1 EXCEPT !.dropping = TRUE, !.count = 1,
                                    !.dropNext = t + IntervalMs],
                   emit |-> FALSE]
             ELSE [q |-> q1, emit |-> TRUE]

\* drain of the entries in slots lo..hi, oldest first, the range split in
\* halves: the control state after them and the slots handed to the sink
RECURSIVE ProcessRange(_, _, _, _)
ProcessRange(q, lo, hi, t) ==
    IF lo > hi THEN [q |-> q, out |-> <<>>]
    ELSE IF lo = hi
    THEN LET d == CoDelStep(q, t - q.buf[lo].timestamp, t)
         IN  [q |-> d.q, out |-> IF d.emit THEN <<lo>> ELSE <<>>]
    ELSE LET mid == (lo + hi) \div 2
             a == ProcessRange(q, lo, mid, t)
             b == ProcessRange(a.q, mid + 1, hi, t)
         IN  [out |-> a.out \o b.out, q |-> b.q]

\* drain: every queued entry is walked and leaves the queue
Process(q, t) ==
    LET r == ProcessRange(q, 1, q.len, t)
    IN  [q |-> [r.q EXCEPT !.len = 0], out |-> r.out]

\* ----------------------------------------------------- in-flight requests
\* win32_tun_io::read: a new asio_evt_pkt for a read into readbuf
read(ps, e) ==
    Append(ps, [ep |-> e, write |-> FALSE, slot |-> 0, tag |-> 0, sz |-> 0,
                st |-> "pending", rel |-> 0])

\* win32_tun_io::do_write: a new asio_evt_pkt pointing at a queue entry buffer
do_write(ps, e, slot, b) ==
    Append(ps, [ep |-> e, write |-> TRUE, slot |-> slot, tag |-> b.tag,
                sz |-> b.bufsz, st |-> "pending", rel |-> 0])

\* the Process visitor of flush_write applied to the slots in out
RECURSIVE WriteAll(_, _, _, _)
WriteAll(ps, e, buf, out) ==
    IF out = <<>> THEN ps
    ELSE WriteAll(do_write(ps, e, Head(out), buf[Head(out)]), e, buf, Tail(out))

\* the calls flush_write makes: the hook, if the caller set one, and a
\* WriteFile per entry handed to the sink
HookCall(e) ==
    IF before_write[e] THEN <<[op |-> "before_write", sz |-> 0]>> ELSE <<>>
WriteCalls(buf, out) ==
    [i \in 1 .. Len(out) |-> [op |-> "WriteFile", sz |-> buf[out[i]].bufsz]]

\* win32_tun_io::flush_write: before_write, then drain the queue into
\* do_write
flush_write_late_hook(ps, q, e, t) ==
    LET r == Process(q, t)
    IN  [pkts |-> WriteAll(ps, e, q.buf, r.out), q |-> r.q,
         trace |-> WriteCalls(q.buf, r.out) \o HookCall(e)]
flush_write(ps, q, e, t) ==
    LET r == Process(q, t)
    IN  [pkts |-> WriteAll(ps, e, q.buf, r.out), q |-> r.q,
         trace |-> HookCall(e) \o WriteCalls(q.buf, r.out)]

\* the calls of one flush_write (trace tr, draining the slots out of buf) up
\* to its WriteFile of the entry that holds payload tag; none if it wrote no
\* such entry
NthWrite(tr, k) ==
    CHOOSE i \in 1 .. Len(tr) :
        /\ tr[i].op = "WriteFile"
        /\ Cardinality({j \in 1 .. i : tr[j].op = "WriteFile"}) = k
IssueOf(tr, buf, out, tag) ==
    LET ks == {k \in 1 .. Len(out) : buf[out[k]].tag = tag}
    IN  IF tag = 0 \/ ks = {} THEN <<>>
        ELSE SubSeq(tr, 1, NthWrite(tr, CHOOSE k \in ks : TRUE))

\* the caller's thread is inside queue_write
InQueueWrite == \E e \in Eps : 0 \in inq[e]

\* line 295: delete pkt, after the branch for it has run
DeletePkt(ps, id) == [ps EXCEPT ![id].rel = @ + 1, ![id].st = "handled"]

Init ==
    /\ tun_event_queue = "INVALID_HANDLE_VALUE"
    /\ portState = "none"
    /\ portsCreated = 0
    /\ poolsStarted = 0
    /\ kThreadPool = "null"
    /\ closeCount = 0
    /\ portCloses = 0
    /\ tun_listeners = <<>>
    /\ epState = [e \in Eps |-> "new"]
    /\ epPort = [e \in Eps |-> "none"]
    /\ wpc = [w \in Workers |-> "none"]
    /\ cur = [w \in Workers |-> 0]
    /\ pkts = <<>>
    /\ iocp = <<>>
    /\ wq = [e \in Eps |-> EmptyQueue]
    /\ nWrites = 0
    /\ now = 0
    /\ exitpc = "idle"
    /\ exit_i = 0
    /\ sentinels = 0
    /\ uaf = FALSE
    /\ crashed = FALSE
    /\ qlog = [ep |-> 0, n |-> 0, tag |-> 0, len0 |-> 0, dropping0 |-> FALSE,
               trace |-> <<>>, issue |-> <<>>]
    /\ inq = [e \in Eps |-> {}]
    /\ qdrops = 0
    /\ drained = [n |-> 0, taken |-> 0, t |-> 0, q0 |-> EmptyQueue,
                  out |-> <<>>, since0 |-> -1, since |-> -1]
    /\ upollfd = "null"
    /\ handlers = <<>>
    /\ upollReg = {}
    /\ conns = [c \in Conns |-> NoConn]
    /\ runpc = "idle"
    /\ events = <<>>
    /\ result = 0
    /\ stopCalled = FALSE
    /\ loopUaf = FALSE
    /\ udp = [u \in Udps |-> NoUdp]
    /\ closedOk = {}
    /\ tickpc = "idle"
    /\ reported = <<>>
    /\ calls = <<>>
    /\ tickRet = 0

\* ------------------------------------------------------------ registration
\* add_ev line 189: only an unset global handle makes add_ev create the port
NeedsChannel_always(h) == TRUE
NeedsChannel(h) == h = "INVALID_HANDLE_VALUE"

\* begin_tun_loop: kThreadPool = new HANDLE[nThreads], then CreateThread for
\* each of nThreads, all entering tun_ev_loop
begin_tun_loop(pcs) == [w \in Workers |-> "wait"]

\* win32_tun_io::add_ev
add_ev(e) ==
    /\ ~crashed
    /\ UNCHANGED <<loopvars, qvars>>
    /\ exitpc \in {"idle", "done"}
    /\ ~InQueueWrite
    /\ epState[e] = "new"
    /\ \A d \in 1 .. (e - 1) : epState[d] # "new"
    /\ Len(pkts) < MaxPkts
    /\ IF NeedsChannel(tun_event_queue)
       THEN /\ tun_event_queue' = "port"
            /\ portState' = "open"
            /\ portsCreated' = portsCreated + 1
            /\ poolsStarted' = poolsStarted + 1
            /\ wpc' = begin_tun_loop(wpc)
            /\ kThreadPool' = "live"
            /\ epPort' = [epPort EXCEPT ![e] = "open"]
       ELSE /\ epPort' = [epPort EXCEPT ![e] = portState]
            /\ UNCHANGED <<tun_event_queue, portState, portsCreated,
                           poolsStarted, kThreadPool, wpc>>
    /\ tun_listeners' = Append(tun_listeners, e)
    /\ epState' = [epState EXCEPT ![e] = "registered"]
    /\ pkts' = read(pkts, e)
    /\ UNCHANGED <<closeCount, portCloses, cur, iocp, wq, nWrites, now, exitpc, exit_i,
                   sentinels, uaf, crashed>>

\* thread th starts work on e's queue, which takes no lock (NullMutex,
\* NullLock): with another thread at work on it, the accesses race
EnterQueue(e, th) ==
    /\ inq' = [inq EXCEPT ![e] = @ \cup {th}]
    /\ crashed' \in (IF inq[e] \ {th} # {} THEN BOOLEAN ELSE {crashed})

\* win32_tun_io::queue_write, lines 147-148: Emplace has constructed the
\* entry; the caller's thread is on its way to Process (leaving Emplace, in
\* the before_write callback, or entering Process) while the workers run on
queue_write_enter(e, sz) ==
    /\ ~crashed
    /\ exitpc \in {"idle", "done"}
    /\ ~InQueueWrite
    /\ epState[e] = "registered"
    /\ nWrites < MaxWrites
    /\ wq' = [wq EXCEPT ![e] = Emplace(@, WriteBuffer(nWrites + 1, sz), now)]
    /\ qlog' = [ep |-> e, n |-> sz, tag |-> nWrites + 1, len0 |-> wq[e].len,
                dropping0 |-> wq[e].dropping, trace |-> <<>>, issue |-> <<>>]
    /\ EnterQueue(e, 0)
    /\ UNCHANGED <<loopvars, tun_event_queue, portState, portsCreated,
                   poolsStarted, kThreadPool, closeCount, portCloses,
                   tun_listeners, epState, epPort, wpc, cur, pkts, iocp,
                   nWrites, now, exitpc, exit_i, sentinels, uaf, qdrops,
                   drained>>

\* win32_tun_io::queue_write, lines 149-150: flush_write on the queue as it
\* is by now, return true
queue_write(e) ==
    /\ ~crashed
    /\ UNCHANGED <<loopvars, qdrops, drained>>
    /\ 0 \in inq[e]
    /\ LET r == flush_write(pkts, wq[e], e, now)
           i == IssueOf(r.trace, wq[e].buf, Process(wq[e], now).out, qlog.tag)
       IN  /\ Len(r.pkts) <= MaxPkts
           /\ pkts' = r.pkts
           /\ wq' = [wq EXCEPT ![e] = r.q]
           /\ qlog' = [qlog EXCEPT !.trace = r.trace,
                                   !.issue = IF i # <<>> THEN i ELSE @]
    /\ inq' = [inq EXCEPT ![e] = @ \ {0}]
    /\ nWrites' = nWrites + 1
    /\ UNCHANGED <<tun_event_queue, portState, portsCreated, poolsStarted,
                   kThreadPool, closeCount, portCloses, tun_listeners,
                   epState, epPort, wpc, cur, iocp, now, exitpc, exit_i,
                   sentinels, uaf, crashed>>

\* the kernel finishes a ReadFile/WriteFile and queues its completion packet
\* on the port the descriptor is associated with; ok is the I/O's outcome
IoCompletes(id, ok) ==
    /\ ~crashed
    /\ UNCHANGED <<loopvars, qvars>>
    /\ id \in 1 .. Len(pkts)
    /\ pkts[id].st = "pending"
    /\ epState[pkts[id].ep] = "registered"
    /\ epPort[pkts[id].ep] = "open"
    /\ pkts' = [pkts EXCEPT ![id].st = "queued"]
    /\ iocp' = Append(iocp, [key |-> pkts[id].ep, ovl |-> id, ok |-> ok])
    /\ UNCHANGED <<tun_event_queue, portState, portsCreated, poolsStarted, kThreadPool,
                   closeCount, portCloses, tun_listeners, epState, epPort, wpc, cur, wq,
                   nWrites, now, exitpc, exit_i, sentinels, uaf, crashed>>

\* ------------------------------------------------------------- tun_ev_loop
\* GetQueuedCompletionStatus returns FALSE with nothing dequeued (timeout, or
\* the handle is closed): continue
WaitTimesOut(w) ==
    /\ ~crashed
    /\ wpc[w] = "wait"
    /\ UNCHANGED vars

\* what tun_ev_loop does with a dequeued packet h (lines 274-279):
\* "continue" on !alert, "break" on the shutdown key, else "dispatch"
AfterWait(h) ==
    IF ~h.ok THEN "continue"
    ELSE IF h.key = ALLONES THEN "break"
    ELSE "dispatch"

\* GetQueuedCompletionStatus dequeues the oldest completion packet
WaitDequeues(w) ==
    /\ ~crashed
    /\ UNCHANGED <<loopvars, qvars>>
    /\ wpc[w] = "wait"
    /\ portState = "open"
    /\ iocp # <<>>
    /\ LET h == Head(iocp)
           a == AfterWait(h)
       IN  /\ iocp' = Tail(iocp)
           /\ pkts' = IF h.ovl = 0 THEN pkts
                      ELSE [pkts EXCEPT ![h.ovl].st = "dequeued"]
           /\ wpc' = [wpc EXCEPT ![w] = CASE a = "continue" -> "wait"
                                          [] a = "break" -> "exited"
                                          [] OTHER -> "got"]
           /\ cur' = [cur EXCEPT ![w] = IF a = "dispatch" THEN h.ovl ELSE 0]
    /\ UNCHANGED <<tun_event_queue, portState, portsCreated, poolsStarted, kThreadPool,
                   closeCount, portCloses, tun_listeners, epState, epPort, wq, nWrites,
                   now, exitpc, exit_i, sentinels, uaf, crashed>>

\* a worker dereferences endpoint e: on a deleted one the behaviour is
\* undefined (the freed memory is still readable, or the process faults)
Deref(e) ==
    IF epState[e] = "deleted"
    THEN uaf' = TRUE /\ crashed' \in BOOLEAN
    ELSE UNCHANGED <<uaf, crashed>>

\* read branch, line 284-285: ev->t->recvpkt(...) is entered
EnterRecvpkt(w) ==
    /\ ~crashed
    /\ UNCHANGED <<loopvars, qvars>>
    /\ wpc[w] = "got"
    /\ ~pkts[cur[w]].write
    /\ wpc' = [wpc EXCEPT ![w] = "recvpkt"]
    /\ Deref(pkts[cur[w]].ep)
    /\ UNCHANGED <<tun_event_queue, portState, portsCreated, poolsStarted, kThreadPool,
                   closeCount, portCloses, tun_listeners, epState, epPort, cur, pkts, iocp,
                   wq, nWrites, now, exitpc, exit_i, sentinels>>

\* line 287: the read handler re-issues the standing read
ReissueAfterRead_none(ps, e) == ps
ReissueAfterRead(ps, e) == read(ps, e)

\* line 293: the write handler issues a read
ReissueAfterWrite(ps, e) == read(ps, e)

\* read branch, lines 286-287 and 295: recvpkt has returned; flush_write,
\* read, delete pkt
FinishRead(w) ==
    /\ ~crashed
    /\ UNCHANGED <<loopvars, qdrops, drained>>
    /\ wpc[w] \in {"recvpkt", "flush"}
    /\ LET e == pkts[cur[w]].ep
           r == flush_write(pkts, wq[e], e, now)
           p2 == ReissueAfterRead(r.pkts, e)
           i == IF qlog.ep = e
                THEN IssueOf(r.trace, wq[e].buf, Process(wq[e], now).out,
                             qlog.tag)
                ELSE <<>>
       IN  /\ Len(p2) <= MaxPkts
           /\ qlog' = [qlog EXCEPT !.issue = IF i # <<>> THEN i ELSE @]
           /\ pkts' = DeletePkt(p2, cur[w])
           /\ wq' = [wq EXCEPT ![e] = r.q]
           /\ inq' = [inq EXCEPT ![e] = @ \ {w}]
           /\ Deref(e)
    /\ wpc' = [wpc EXCEPT ![w] = "wait"]
    /\ cur' = [cur EXCEPT ![w] = 0]
    /\ UNCHANGED <<tun_event_queue, portState, portsCreated, poolsStarted, kThreadPool,
                   closeCount, portCloses, tun_listeners, epState, epPort, iocp, nWrites,
                   now, exitpc, exit_i, sentinels>>

\* write branch, lines 291-295: read, delete pkt
FinishWrite(w) ==
    /\ ~crashed
    /\ UNCHANGED <<loopvars, qvars>>
    /\ wpc[w] = "got"
    /\ pkts[cur[w]].write
    /\ LET e == pkts[cur[w]].ep
           p2 == ReissueAfterWrite(pkts, e)
       IN  /\ Len(p2) <= MaxPkts
           /\ pkts' = DeletePkt(p2, cur[w])
           /\ Deref(e)
    /\ wpc' = [wpc EXCEPT ![w] = "wait"]
    /\ cur' = [cur EXCEPT ![w] = 0]
    /\ UNCHANGED <<tun_event_queue, portState, portsCreated, poolsStarted, kThreadPool,
                   closeCount, portCloses, tun_listeners, epState, epPort, iocp, wq,
                   nWrites, now, exitpc, exit_i, sentinels>>

\* ----------------------------------------------------------- exit_tun_loop
\* line 305: the shutdown completions exit_tun_loop posts
PostSentinels(q) == Append(q, [key |-> ALLONES, ovl |-> 0, ok |-> TRUE])

\* line 308: (&kThreadPool)[1] - kThreadPool reads past the global pointer;
\* the count is whatever the build leaves there: a value
\* WaitForMultipleObjects rejects with a loop that does not run (0 stands
\* for zero and the negative counts), a count short of the pool (1 stands
\* for them), by chance the pool's size, or a count larger than the pool
\* (NumThreads + 1 stands for them)
PoolSizes == {0, 1, NumThreads, NumThreads + 1}

\* lines 305-309, on any call: the caller's thread is in no other call.
\* PostQueuedCompletionStatus queues the completion on an open port and
\* fails on INVALID_HANDLE_VALUE or a closed handle
ExitPost ==
    /\ ~crashed
    /\ UNCHANGED <<loopvars, qvars>>
    /\ exitpc \in {"idle", "done"}
    /\ ~InQueueWrite
    /\ closeCount < MaxExits
    /\ iocp' = IF portState = "open" THEN PostSentinels(iocp) ELSE iocp
    /\ sentinels' = sentinels + (Len(iocp') - Len(iocp))
    /\ exit_i' \in PoolSizes
    /\ exitpc' = "wait"
    /\ UNCHANGED <<tun_event_queue, portState, portsCreated, poolsStarted,
                   kThreadPool, closeCount, portCloses, tun_listeners,
                   epState, epPort, wpc, cur, pkts, wq, nWrites, now, uaf,
                   crashed>>

\* line 310: WaitForMultipleObjects(i, kThreadPool, TRUE, INFINITE) returns
\* once the first i threads of the pool have ended, or at once when i is no
\* valid count or kThreadPool holds no thread handles
WaitReturns(i) ==
    IF kThreadPool = "live" /\ i \in 1 .. NumThreads
    THEN \A w \in 1 .. i : wpc[w] = "exited"
    ELSE TRUE

\* lines 311-313: CloseHandle(kThreadPool[j]) for j < i, then
\* delete[] kThreadPool. With kThreadPool null the loop, if it runs, reads
\* through the null pointer and delete[] does nothing; on the live array a
\* count beyond the pool reads past its end (the process faults once the
\* reads leave mapped memory); on the freed array the reads and the second
\* delete[] are undefined (the allocator aborts, or the double free goes
\* undetected)
PoolRelease(i) ==
    CASE kThreadPool = "null" ->
           /\ crashed' = (i >= 1)
           /\ UNCHANGED kThreadPool
      [] kThreadPool = "live" ->
           /\ crashed' \in (IF i > NumThreads THEN BOOLEAN ELSE {FALSE})
           /\ kThreadPool' = "freed"
      [] OTHER ->
           /\ crashed' \in BOOLEAN
           /\ UNCHANGED kThreadPool

\* lines 310-313
ExitWait ==
    /\ ~crashed
    /\ UNCHANGED <<loopvars, qvars>>
    /\ exitpc = "wait"
    /\ WaitReturns(exit_i)
    /\ PoolRelease(exit_i)
    /\ exitpc' = "delete"
    /\ UNCHANGED <<tun_event_queue, portState, portsCreated, poolsStarted,
                   closeCount, portCloses, tun_listeners, epState, epPort,
                   wpc, cur, pkts, iocp, wq, nWrites, now, exit_i, sentinels,
                   uaf>>

\* ~win32_tun_io: the outstanding requests of e end aborted; their completion
\* packets are queued as failures, ids ascending from id
RECURSIVE Aborted(_, _, _)
Aborted(ps, e, id) ==
    IF id > Len(ps) THEN <<>>
    ELSE IF ps[id].ep = e /\ ps[id].st = "pending" /\ epPort[e] = "open"
    THEN <<[key |-> e, ovl |-> id, ok |-> FALSE]>> \o Aborted(ps, e, id + 1)
    ELSE Aborted(ps, e, id + 1)

\* lines 319-324, one iteration: delete(*itr); itr = erase(itr)
ExitDelete ==
    /\ ~crashed
    /\ UNCHANGED <<loopvars, qvars>>
    /\ exitpc = "delete"
    /\ tun_listeners # <<>>
    /\ LET e == Head(tun_listeners)
       IN  /\ epState' = [epState EXCEPT ![e] = "deleted"]
           /\ iocp' = iocp \o Aborted(pkts, e, 1)
           /\ pkts' = [id \in 1 .. Len(pkts) |->
                         IF pkts[id].ep = e /\ pkts[id].st = "pending"
                            /\ epPort[e] = "open"
                         THEN [pkts[id] EXCEPT !.st = "queued"]
                         ELSE pkts[id]]
    /\ tun_listeners' = Tail(tun_listeners)
    /\ UNCHANGED <<tun_event_queue, portState, portsCreated, poolsStarted, kThreadPool,
                   closeCount, portCloses, epPort, wpc, cur, wq, nWrites, now, exitpc,
                   exit_i, sentinels, uaf, crashed>>

\* line 325: CloseHandle(tun_event_queue), whatever the global holds; it
\* keeps the handle value
ExitClose ==
    /\ ~crashed
    /\ UNCHANGED <<loopvars, qvars>>
    /\ exitpc = "delete"
    /\ tun_listeners = <<>>
    /\ portState' = IF portState = "open" THEN "closed" ELSE portState
    /\ closeCount' = closeCount + 1
    /\ portCloses' = IF tun_event_queue = "port" THEN portCloses + 1
                     ELSE portCloses
    /\ exitpc' = "done"
    /\ UNCHANGED <<tun_event_queue, portsCreated, poolsStarted, kThreadPool,
                   tun_listeners, epState, epPort, wpc, cur, pkts, iocp, wq,
                   nWrites, now, exit_i, sentinels, uaf, crashed>>

Next ==
    \/ \E e \in Eps : add_ev(e)
    \/ \E e \in Eps, sz \in PayloadSizes : queue_write_enter(e, sz)
    \/ \E e \in Eps : queue_write(e)
    \/ \E id \in 1 .. MaxPkts, ok \in BOOLEAN : IoCompletes(id, ok)
    \/ \E w \in Workers : WaitTimesOut(w)
    \/ \E w \in Workers : WaitDequeues(w)
    \/ \E w \in Workers : EnterRecvpkt(w)
    \/ \E w \in Workers : FinishRead(w)
    \/ \E w \in Workers : FinishWrite(w)
    \/ ExitPost
    \/ ExitWait
    \/ ExitDelete
    \/ ExitClose

Spec == Init /\ [][Next]_vars

\* registration and I/O with no shutdown: the endpoints stay open
IoNext ==
    \/ \E e \in Eps : add_ev(e)
    \/ \E e \in Eps, sz \in PayloadSizes : queue_write_enter(e, sz)
    \/ \E e \in Eps : queue_write(e)
    \/ \E id \in 1 .. MaxPkts, ok \in BOOLEAN : IoCompletes(id, ok)
    \/ \E w \in Workers : WaitTimesOut(w)
    \/ \E w \in Workers : WaitDequeues(w)
    \/ \E w \in Workers : EnterRecvpkt(w)
    \/ \E w \in Workers : FinishRead(w)
    \/ \E w \in Workers : FinishWrite(w)

IoSpec == Init /\ [][IoNext]_vars

\* ------------------------------------------ threads inside a pacing queue
\* read branch, line 286: recvpkt has returned and the worker is inside
\* flush_write's Process
FlushEnter(w) ==
    /\ ~crashed
    /\ wpc[w] = "recvpkt"
    /\ wpc' = [wpc EXCEPT ![w] = "flush"]
    /\ EnterQueue(pkts[cur[w]].ep, w)
    /\ UNCHANGED <<loopvars, tun_event_queue, portState, portsCreated,
                   poolsStarted, kThreadPool, closeCount, portCloses, tun_listeners, epState, epPort,
                   cur, pkts, iocp, wq, nWrites, now, exitpc, exit_i,
                   sentinels, uaf, qlog, qdrops, drained>>

\* registration and I/O with the steps into the queue made visible
RaceNext ==
    \/ \E e \in Eps : add_ev(e)
    \/ \E e \in Eps, sz \in PayloadSizes : queue_write_enter(e, sz)
    \/ \E e \in Eps : queue_write(e)
    \/ \E id \in 1 .. MaxPkts, ok \in BOOLEAN : IoCompletes(id, ok)
    \/ \E w \in Workers : WaitTimesOut(w)
    \/ \E w \in Workers : WaitDequeues(w)
    \/ \E w \in Workers : EnterRecvpkt(w)
    \/ \E w \in Workers : FinishRead(w)
    \/ \E w \in Workers : FinishWrite(w)
    \/ \E w \in Workers : FlushEnter(w)

RaceSpec == Init /\ [][RaceNext]_vars

\* ------------------------------------------- the pacing queue on its own
\* Emplace on the queue of endpoint 1 at the current time
push(sz, lim) ==
    /\ ~crashed
    /\ nWrites < lim
    /\ LET q1 == Emplace(wq[1], WriteBuffer(nWrites + 1, sz), now)
       IN  /\ wq' = [wq EXCEPT ![1] = q1]
           /\ qdrops' = IF q1.len = wq[1].len THEN qdrops + 1 ELSE qdrops
    /\ nWrites' = nWrites + 1
    /\ UNCHANGED <<loopvars, tun_event_queue, portState, portsCreated,
                   poolsStarted, kThreadPool, closeCount, portCloses, tun_listeners, epState, epPort,
                   wpc, cur, pkts, iocp, now, exitpc, exit_i, sentinels, uaf,
                   crashed, qlog, inq, drained>>

\* the observer's account of the sojourn times a drain of q at t sees: the
\* entries are in push order, so the last one has waited least
AboveSince(prev, q, t) ==
    IF q.len = 0 THEN prev
    ELSE IF t - q.buf[q.len].timestamp < DropMs THEN -1
    ELSE IF prev = -1 THEN t
    ELSE prev

\* Process on the queue of endpoint 1 at the current time
drain(lim) ==
    /\ ~crashed
    /\ drained.n < lim
    /\ LET r == Process(wq[1], now)
       IN  /\ wq' = [wq EXCEPT ![1] = r.q]
           /\ drained' = [n |-> drained.n + 1,
                          taken |-> drained.taken + wq[1].len,
                          t |-> now, q0 |-> wq[1], out |-> r.out,
                          since0 |-> drained.since,
                          since |-> AboveSince(drained.since, wq[1], now)]
    /\ UNCHANGED <<loopvars, tun_event_queue, portState, portsCreated,
                   poolsStarted, kThreadPool, closeCount, portCloses, tun_listeners, epState, epPort,
                   wpc, cur, pkts, iocp, nWrites, now, exitpc, exit_i,
                   sentinels, uaf, crashed, qlog, inq, qdrops>>

\* llarp::time_now_ms() moves on by d
advance(d) ==
    /\ ~crashed
    /\ now + d <= Horizon
    /\ now' = now + d
    /\ UNCHANGED <<loopvars, tun_event_queue, portState, portsCreated,
                   poolsStarted, kThreadPool, closeCount, portCloses, tun_listeners, epState, epPort,
                   wpc, cur, pkts, iocp, wq, nWrites, exitpc, exit_i,
                   sentinels, uaf, crashed, qvars>>

\* more pushes than the queue holds, at one instant
CapNext ==
    \/ push(EV_WRITE_BUF_SZ, CapPushes)
    \/ drain(CapDrains)

CapSpec == Init /\ [][CapNext]_vars

\* pushes and drains under the simulated clock
PaceNext ==
    \/ push(EV_WRITE_BUF_SZ, PacePushes)
    \/ drain(PaceDrains)
    \/ \E d \in ClockSteps : advance(d)

PaceSpec == Init /\ [][PaceNext]_vars

\* -------------------------------------------------------- llarp_win32_loop
Bump(n) == IF n < CallCap THEN n + 1 ELSE CallCap

\* tcp_conn::connected: the connected callback, fired only the first time
connected(r) ==
    IF r.calledConnected THEN r
    ELSE [r EXCEPT !.calledConnected = TRUE, !.nConnected = Bump(r.nConnected)]

\* tcp_conn::flush_write: connected(), then ev_io::flush_write()
tcp_flush_write(r) == connected(r)

\* tcp_conn::read: a closing connection refuses; a failed receive marks it
tcp_read(r, got) ==
    IF r.shouldClose THEN r
    ELSE IF got THEN r
    ELSE [r EXCEPT !.shouldClose = TRUE]

\* ev_io::error: marks the endpoint for closure
ev_error(r) == [r EXCEPT !.shouldClose = TRUE]

\* tcp_conn::connect lines 375-397 for the outcome res of ::connect
tcp_connect_result(r, res) ==
    LET r1 == [r EXCEPT !.res = res]
    IN  IF res = "ok" THEN connected(r1)
        ELSE IF res = "inprogress" THEN r1
        ELSE IF r.hasError THEN [r1 EXCEPT !.nError = Bump(r.nError)]
        ELSE r1

\* the live endpoint allocated in heap block b, if any
EndpointAt(b) ==
    {c \in Conns : conns[c].st = "live" /\ conns[c].blk = b}
    \cup {UdpEv(v) : v \in {x \in Udps : udp[x].st = "live" /\ udp[x].blk = b}}

\* the freed blocks that the l->impl of a destroyed udp_listener still
\* points at (the reuse of any other freed block shows in nothing)
DanglingBlocks ==
    {udp[d].blk : d \in {x \in Udps : /\ udp[x].st = "deleted"
                                      /\ udp[x].impl
                                      /\ EndpointAt(udp[x].blk) = {}}}

\* operator new for an endpoint: a block never used before (block u for
\* udp_listener u, block MaxUdps + c for tcp_conn c) or a freed one
NewBlocks(fresh) == {fresh} \cup DanglingBlocks

\* llarp_win32_loop::init
init ==
    /\ ~crashed
    /\ upollfd = "null"
    /\ upollfd' = "open"
    /\ UNCHANGED <<tunvars, evvars, handlers, upollReg, conns, runpc, events, result,
                   stopCalled, loopUaf>>

\* llarp_win32_loop::tcp_connect where usocket fails: return false
tcp_connect_nosocket(c) ==
    /\ ~crashed
    /\ conns[c].st = "none"
    /\ \A d \in 1 .. (c - 1) : conns[d].st # "none"
    /\ conns' = [conns EXCEPT ![c].st = "nosocket", ![c].ret = "false"]
    /\ UNCHANGED <<tunvars, evvars, upollfd, handlers, upollReg, runpc, events, result,
                   stopCalled, loopUaf>>

\* llarp_win32_loop::tcp_connect with a socket: new tcp_conn, add_ev(conn,
\* true), conn->connect(), return true. regOk is upoll_ctl's outcome, res the
\* outcome of ::connect, hasError whether the caller gave an error callback
tcp_connect(c, regOk, res, hasError) ==
    /\ ~crashed
    /\ conns[c].st = "none"
    /\ \A d \in 1 .. (c - 1) : conns[d].st # "none"
    /\ upollfd = "null" => ~regOk
    /\ LET r0 == [NoConn EXCEPT !.hasError = hasError, !.ret = "true"]
       IN  IF regOk
           THEN /\ upollReg' = upollReg \cup {c}
                /\ handlers' = Append(handlers, c)
                /\ \E b \in NewBlocks(MaxUdps + c) :
                      conns' = [conns EXCEPT ![c] =
                                  tcp_connect_result(
                                      [r0 EXCEPT !.st = "live", !.blk = b], res)]
                /\ UNCHANGED <<loopUaf, crashed>>
           ELSE \* add_ev deleted conn; connect() runs on the freed object,
                \* whose socket is closed
                /\ loopUaf' = TRUE
                /\ crashed' \in BOOLEAN
                /\ conns' = [conns EXCEPT ![c] =
                               tcp_connect_result(
                                   [r0 EXCEPT !.st = "deleted", !.dels = 1,
                                              !.regFailed = TRUE,
                                              !.usedDeleted = TRUE],
                                   "failed")]
                /\ UNCHANGED <<upollReg, handlers>>
    /\ UNCHANGED <<tunquiet, upollfd, runpc, events, result, stopCalled,
                   evvars>>

\* llarp_win32_loop::stop: does nothing
stop ==
    /\ ~crashed
    /\ ~stopCalled
    /\ stopCalled' = TRUE
    /\ UNCHANGED <<tunvars, evvars, upollfd, handlers, upollReg, conns, runpc, events,
                   result, loopUaf>>

\* the readiness bits upoll reports for one endpoint
EventBits == (SUBSET {"IN", "OUT", "ERR"}) \ {{}}

\* the event lists upoll_wait can return: at most one event per registered
\* endpoint, from endpoint c on
RECURSIVE EventLists(_)
EventLists(c) ==
    IF c > MaxConns + MaxUdps THEN {<<>>}
    ELSE LET rest == EventLists(c + 1)
         IN  rest \cup
             (IF c \in upollReg
              THEN {<<[ev |-> c, bits |-> b]>> \o t : b \in EventBits, t \in rest}
              ELSE {})

\* run() is entered on an initialised loop
run_begin ==
    /\ ~crashed
    /\ runpc = "idle"
    /\ tickpc # "dispatch"
    /\ upollfd = "open"
    /\ runpc' = "wait"
    /\ UNCHANGED <<tunvars, evvars, upollfd, handlers, upollReg, conns, events, result,
                   stopCalled, loopUaf>>

\* run() line 622: upoll_wait fails (-1), times out (0) or reports events
run_wait ==
    /\ ~crashed
    /\ runpc = "wait"
    /\ \/ result' \in {-1, 0} /\ events' = <<>>
       \/ \E evs \in EventLists(1) \ {<<>>} :
             result' = Len(evs) /\ events' = evs
    /\ runpc' = "dispatch"
    /\ UNCHANGED <<tunvars, evvars, upollfd, handlers, upollReg, conns, stopCalled,
                   loopUaf>>

\* lines 631-645: error() alone on UPOLLERR, else read on UPOLLIN and then
\* flush_write on UPOLLOUT
dispatch(r, bits, got) ==
    IF "ERR" \in bits THEN ev_error(r)
    ELSE LET r1 == IF "IN" \in bits THEN tcp_read(r, got) ELSE r
         IN  IF "OUT" \in bits THEN tcp_flush_write(r1) ELSE r1

\* run() lines 626-648, one iteration of the dispatch loop
run_dispatch(got) ==
    /\ ~crashed
    /\ runpc = "dispatch"
    /\ events # <<>>
    /\ LET h == Head(events)
       IN  conns' = [conns EXCEPT ![h.ev] = dispatch(conns[h.ev], h.bits, got)]
    /\ events' = Tail(events)
    /\ UNCHANGED <<tunvars, evvars, upollfd, handlers, upollReg, runpc, result,
                   stopCalled, loopUaf>>

\* the loop condition of run(), line 652
KeepsRunning(fd) == fd # "null"

\* run() lines 650-652: tick_listeners unless the wait failed, then the loop
\* condition
run_tick ==
    /\ ~crashed
    /\ runpc = "dispatch"
    /\ events = <<>>
    /\ runpc' = IF KeepsRunning(upollfd) THEN "wait" ELSE "returned"
    /\ UNCHANGED <<tunvars, evvars, upollfd, handlers, upollReg, conns, events, result,
                   stopCalled, loopUaf>>

RunStep == run_wait \/ (\E got \in BOOLEAN : run_dispatch(got)) \/ run_tick

LoopNext ==
    \/ init
    \/ \E c \in Conns : tcp_connect_nosocket(c)
    \/ \E c \in Conns, regOk \in BOOLEAN, res \in {"ok", "inprogress", "failed"},
          hasError \in BOOLEAN : tcp_connect(c, regOk, res, hasError)
    \/ stop
    \/ run_begin
    \/ run_wait
    \/ \E got \in BOOLEAN : run_dispatch(got)
    \/ run_tick

\* the thread inside run() keeps being scheduled
LoopSpec == Init /\ [][LoopNext]_vars /\ WF_vars(RunStep)

\* ------------------------------------- registration failure and closing
\* tcp_serv::read: accept, new tcp_conn, loop->add_ev(connimpl, true); when
\* add_ev fails it has deleted connimpl, and line 423 deletes it again.
\* accOk is the outcome of ::accept, regOk that of upoll_ctl
tcp_serv_read(c, accOk, regOk) ==
    /\ ~crashed
    /\ conns[c].st = "none"
    /\ \A d \in 1 .. (c - 1) : conns[d].st # "none"
    /\ upollfd = "null" => ~regOk
    /\ IF ~accOk
       THEN /\ conns' = [conns EXCEPT ![c].st = "nosocket", ![c].ret = "-1"]
            /\ UNCHANGED <<upollReg, handlers, loopUaf, crashed>>
       ELSE IF regOk
       THEN /\ \E b \in NewBlocks(MaxUdps + c) :
                  conns' = [conns EXCEPT ![c].st = "live", ![c].blk = b,
                                         ![c].res = "accepted", ![c].ret = "0"]
            /\ upollReg' = upollReg \cup {c}
            /\ handlers' = Append(handlers, c)
            /\ UNCHANGED <<loopUaf, crashed>>
       ELSE /\ conns' = [conns EXCEPT ![c].st = "deleted", ![c].dels = 2,
                                      ![c].regFailed = TRUE, ![c].ret = "-1"]
            /\ loopUaf' = TRUE
            /\ crashed' \in BOOLEAN
            /\ UNCHANGED <<upollReg, handlers>>
    /\ UNCHANGED <<tunquiet, upollfd, runpc, events, result, stopCalled, evvars>>

\* llarp_win32_loop::udp_listen: create_udp (which stores the listener in
\* l->impl), then add_ev(ev, false), which deletes the listener when
\* upoll_ctl fails. bindOk is the outcome of udp_bind, regOk of upoll_ctl
udp_listen(u, bindOk, regOk) ==
    /\ ~crashed
    /\ udp[u].st = "none"
    /\ \A d \in 1 .. (u - 1) : udp[d].st # "none"
    /\ upollfd = "null" => ~regOk
    /\ IF ~bindOk
       THEN /\ udp' = [udp EXCEPT ![u].st = "nobind", ![u].ret = "false"]
            /\ UNCHANGED <<upollReg, handlers>>
       ELSE \E b \in NewBlocks(u) :
              IF regOk
              THEN /\ udp' = [udp EXCEPT ![u].st = "live", ![u].impl = TRUE,
                                         ![u].blk = b, ![u].ret = "true"]
                   /\ upollReg' = upollReg \cup {UdpEv(u)}
                   /\ handlers' = Append(handlers, UdpEv(u))
              ELSE /\ udp' = [udp EXCEPT ![u].st = "deleted", ![u].impl = TRUE,
                                         ![u].blk = b, ![u].dels = 1,
                                         ![u].regFailed = TRUE,
                                         ![u].ret = "false"]
                   /\ UNCHANGED <<upollReg, handlers>>
    /\ UNCHANGED <<tunvars, upollfd, conns, runpc, events, result, stopCalled,
                   loopUaf, closedOk, tickpc, reported, calls, tickRet>>

\* upoll_ctl(upollfd, UPOLL_CTL_DEL, fd): succeeds on a registered descriptor
upoll_del(reg, ev) == [ok |-> ev \in reg, reg |-> reg \ {ev}]

\* handlers.erase of every entry that is ev
erase(hs, ev) == SelectSeq(hs, LAMBDA h : h # ev)

\* endpoint ev has been constructed and not deleted
Live(ev) ==
    IF ev \in Conns THEN conns[ev].st = "live" ELSE udp[ev - MaxConns].st = "live"

\* llarp_win32_loop::close_ev: upoll_ctl DEL and nothing else
close_ev(ev) ==
    /\ ~crashed
    /\ Live(ev)
    /\ LET d == upoll_del(upollReg, ev)
       IN  /\ upollReg' = d.reg
           /\ closedOk' = IF d.ok THEN closedOk \cup {ev} ELSE closedOk
    /\ UNCHANGED <<tunvars, upollfd, handlers, conns, runpc, events, result,
                   stopCalled, loopUaf, udp, tickpc, reported, calls, tickRet>>

\* the registrations upoll can be left with after upoll_ctl DEL on a
\* descriptor read from freed memory: it is no registered descriptor, or it
\* is the descriptor of some registered endpoint
StaleDel(reg) == {reg} \cup {upoll_del(reg, x).reg : x \in reg}

\* the erase of endpoint x from the registry destroys it
Destroyed(cs, x) ==
    IF x \in Conns THEN [cs EXCEPT ![x].st = "deleted", ![x].dels = @ + 1]
    ELSE cs
DestroyedUdp(us, x) ==
    IF x \in Conns THEN us
    ELSE [us EXCEPT ![x - MaxConns].st = "deleted",
                    ![x - MaxConns].dels = @ + 1]

\* llarp_win32_loop::udp_close: with l->impl set, close_ev(listener) (its
\* result unused), erase the listener from handlers (the registry owns its
\* entries, so this destroys it), clear l->impl, return true. A listener
\* that add_ev deleted is read through the stale l->impl: when a later
\* endpoint has been allocated in its block, that one is deregistered,
\* erased and destroyed (a udp_listener's own l->impl left dangling);
\* otherwise listener->fd is read from freed memory (the process faults, or
\* upoll_ctl DEL is called on whatever the memory holds) and the pointer
\* matches nothing in the registry
udp_close(u) ==
    /\ ~crashed
    /\ udp[u].ret # "none"
    /\ IF ~udp[u].impl
       THEN /\ udp' = [udp EXCEPT ![u].closeRet = "false"]
            /\ UNCHANGED <<upollReg, handlers, conns, closedOk, loopUaf,
                           crashed>>
       ELSE IF EndpointAt(udp[u].blk) = {}
       THEN /\ udp' = [udp EXCEPT ![u].usedDeleted = TRUE, ![u].impl = FALSE,
                                  ![u].closeRet = "true"]
            /\ closedOk' = closedOk \cup {UdpEv(u)}
            /\ loopUaf' = TRUE
            /\ crashed' \in BOOLEAN
            /\ upollReg' \in StaleDel(upollReg)
            /\ UNCHANGED <<handlers, conns>>
       ELSE \E x \in EndpointAt(udp[u].blk) :
              /\ upollReg' = upoll_del(upollReg, x).reg
              /\ handlers' = erase(handlers, x)
              /\ conns' = Destroyed(conns, x)
              /\ udp' = [DestroyedUdp(udp, x) EXCEPT
                            ![u].usedDeleted = (@ \/ x # UdpEv(u)),
                            ![u].impl = FALSE,
                            ![u].closeRet = "true"]
              /\ closedOk' = closedOk \cup {UdpEv(u)}
              /\ loopUaf' = (loopUaf \/ x # UdpEv(u))
              /\ UNCHANGED crashed
    /\ UNCHANGED <<tunquiet, upollfd, runpc, events, result, stopCalled,
                   tickpc, reported, calls, tickRet>>

\* -------------------------------------------------------------- tick(ms)
\* tick lines 582-605: the endpoint operations invoked for one event
dispatch_calls_errfalls(ev, bits) ==
    (IF "ERR" \in bits THEN <<[op |-> "error", ev |-> ev]>> ELSE <<>>)
    \o (IF "IN" \in bits THEN <<[op |-> "read", ev |-> ev]>> ELSE <<>>)
    \o (IF "OUT" \in bits THEN <<[op |-> "flush_write", ev |-> ev]>> ELSE <<>>)
dispatch_calls(ev, bits) ==
    IF "ERR" \in bits THEN <<[op |-> "error", ev |-> ev]>>
    ELSE (IF "IN" \in bits THEN <<[op |-> "read", ev |-> ev]>> ELSE <<>>)
         \o (IF "OUT" \in bits THEN <<[op |-> "flush_write", ev |-> ev]>>
             ELSE <<>>)

\* tick_listeners: the periodic tick of every endpoint in the registry
tick_listeners(hs) == [i \in 1 .. Len(hs) |-> [op |-> "tick", ev |-> hs[i]]]

\* tick line 580: upoll_wait fails (-1), times out (0) or reports events
tick_wait ==
    /\ ~crashed
    /\ tickpc # "dispatch"
    /\ runpc = "idle"
    /\ upollfd = "open"
    /\ \/ result' \in {-1, 0} /\ events' = <<>>
       \/ \E evs \in EventLists(1) \ {<<>>} :
             result' = Len(evs) /\ events' = evs
    /\ reported' = events'
    /\ calls' = <<>>
    /\ tickpc' = "dispatch"
    /\ UNCHANGED <<tunvars, upollfd, handlers, upollReg, conns, runpc,
                   stopCalled, loopUaf, udp, closedOk, tickRet>>

\* tick lines 584-607, one iteration of the dispatch loop
tick_dispatch(got) ==
    /\ ~crashed
    /\ tickpc = "dispatch"
    /\ events # <<>>
    /\ LET h == Head(events)
       IN  /\ calls' = calls \o dispatch_calls(h.ev, h.bits)
           /\ conns' = IF h.ev \in Conns
                       THEN [conns EXCEPT ![h.ev] =
                               dispatch(conns[h.ev], h.bits, got)]
                       ELSE conns
    /\ events' = Tail(events)
    /\ UNCHANGED <<tunvars, upollfd, handlers, upollReg, runpc, result,
                   stopCalled, loopUaf, udp, closedOk, tickpc, reported,
                   tickRet>>

\* tick lines 610-612: tick_listeners unless the wait failed; return result
tick_return ==
    /\ ~crashed
    /\ tickpc = "dispatch"
    /\ events = <<>>
    /\ calls' = IF result # -1 THEN calls \o tick_listeners(handlers) ELSE calls
    /\ tickRet' = result
    /\ tickpc' = "returned"
    /\ UNCHANGED <<tunvars, upollfd, handlers, upollReg, conns, runpc, events,
                   result, stopCalled, loopUaf, udp, closedOk, reported>>

\* registration and closing of loop endpoints, no tick running
RegNext ==
    \/ init
    \/ \E c \in Conns : tcp_connect_nosocket(c)
    \/ \E c \in Conns, regOk \in BOOLEAN, res \in {"ok", "inprogress", "failed"},
          hasError \in BOOLEAN : tcp_connect(c, regOk, res, hasError)
    \/ \E c \in Conns, accOk \in BOOLEAN, regOk \in BOOLEAN :
          tcp_serv_read(c, accOk, regOk)
    \/ \E u \in Udps, bindOk \in BOOLEAN, regOk \in BOOLEAN :
          udp_listen(u, bindOk, regOk)
    \/ \E u \in Udps : udp_close(u)
    \/ \E ev \in LoopEps : close_ev(ev)

RegSpec == Init /\ [][RegNext]_vars

\* tick(ms) over UDP listeners
TickNext ==
    \/ init
    \/ \E u \in Udps, bindOk \in BOOLEAN, regOk \in BOOLEAN :
          udp_listen(u, bindOk, regOk)
    \/ \E u \in Udps : udp_close(u)
    \/ tick_wait
    \/ \E got \in BOOLEAN : tick_dispatch(got)
    \/ tick_return

TickSpec == Init /\ [][TickNext]_vars

\* ------------------------------------------------------------------ claims
PktIds == 1 .. Len(pkts)
Held(id) == \E w \in Workers : cur[w] = id
ReadsIssued(e) == Cardinality({id \in PktIds : pkts[id].ep = e /\ ~pkts[id].write})
ReadsHandled(e) ==
    Cardinality({id \in PktIds :
                   pkts[id].ep = e /\ ~pkts[id].write /\ pkts[id].st = "handled"})
WritesHandled(e) ==
    Cardinality({id \in PktIds :
                   pkts[id].ep = e /\ pkts[id].write /\ pkts[id].st = "handled"})
ReadsOutstanding(e) ==
    Cardinality({id \in PktIds :
                   pkts[id].ep = e /\ ~pkts[id].write
                   /\ pkts[id].st \in {"pending", "queued"}})
AllWorkersExited == \A w \in Workers : wpc[w] = "exited"

\* C1: every asio_evt_pkt is released exactly once: none is deleted twice,
\* and one whose completion a worker took off the port, and that no worker
\* holds any more, has been deleted.
C1_ReleasedExactlyOnce ==
    \A id \in PktIds :
        /\ pkts[id].rel <= 1
        /\ (pkts[id].st \in {"dequeued", "handled"} /\ ~Held(id))
              => pkts[id].rel = 1

\* C2: all workers have left tun_ev_loop before exit_tun_loop deletes the
\* first endpoint, and no worker dispatches to a deleted endpoint.
C2_WorkersGoneBeforeDelete ==
    /\ (\E e \in Eps : epState[e] = "deleted") => AllWorkersExited
    /\ ~uaf

\* C3: an exit_tun_loop called with the workers started posts a shutdown
\* completion for every worker, and has joined every worker before it
\* releases the endpoints and closes the port.
C3_ExitJoinsEveryWorker ==
    /\ (((exitpc \in {"wait", "delete"} /\ poolsStarted > 0) \/ portCloses > 0)
          => sentinels >= NumThreads)
    /\ (portState = "closed" =>
          AllWorkersExited /\ \A e \in Eps : epPort[e] = "open" => epState[e] = "deleted")

\* C4: on an endpoint that is registered, while only read completions have
\* been handled for it, the reads issued are the handled read completions
\* plus the initial one.
C4_ReadChaining ==
    \A e \in Eps :
        (epState[e] = "registered" /\ WritesHandled(e) = 0)
          => ReadsIssued(e) = ReadsHandled(e) + 1

C4_Witness ==
    \E e \in Eps :
        /\ epState[e] = "registered"
        /\ WritesHandled(e) = 0
        /\ ReadsHandled(e) = 2
        /\ ReadsIssued(e) = 3

\* C5: an endpoint never has more than one read request outstanding.
C5_OneReadOutstanding == \A e \in Eps : ReadsOutstanding(e) <= 1

\* C6: while a write request is pending, the queue entry buffer it points to
\* still holds the payload the request was issued for.
C6_WriteBufferStable ==
    \A id \in PktIds :
        (pkts[id].write /\ pkts[id].st = "pending" /\ pkts[id].sz > 0)
          => /\ pkts[id].slot <= Len(wq[pkts[id].ep].buf)
             /\ wq[pkts[id].ep].buf[pkts[id].slot].tag = pkts[id].tag

\* C7: over any sequence of add_ev calls the port is created once and the
\* thread pool is started once, both by the first registration, and every
\* registered descriptor is associated with that port.
C7_ChannelCreatedOnce ==
    /\ portsCreated <= 1
    /\ poolsStarted <= 1
    /\ \A e \in Eps :
          epState[e] = "registered"
            => /\ portsCreated = 1
               /\ poolsStarted = 1
               /\ tun_event_queue = "port"
               /\ epPort[e] = "open"
    /\ (portsCreated = 0 => \A w \in Workers : wpc[w] = "none")

C7_Witness ==
    /\ \A e \in Eps : epState[e] = "registered"
    /\ portsCreated = 1
    /\ poolsStarted = 1

\* C8: the port is closed at most once, and once exit_tun_loop has closed it
\* no worker waits on it and no add_ev has associated a descriptor with it.
C8_NoUseOfClosedChannel ==
    /\ portCloses <= 1
    /\ portState = "closed" =>
          /\ \A w \in Workers : wpc[w] \in {"none", "exited"}
          /\ \A e \in Eps : epState[e] = "registered" => epPort[e] # "closed"

\* C9: once stop() has been called, a running run() eventually returns; and
\* run() does not return before stop() is called.
C9_StopEndsRun ==
    /\ (stopCalled /\ runpc # "idle") ~> (runpc = "returned")
    /\ [](runpc = "returned" => stopCalled)

\* C10: after tcp_connect whose connect failed, the error callback has run
\* exactly once, the connected callback never, and the connection is neither
\* in the registry nor registered with upoll.
InHandlers(c) == \E i \in 1 .. Len(handlers) : handlers[i] = c
C10_FailedConnectLeavesNothing ==
    \A c \in Conns :
        (conns[c].st = "live" /\ conns[c].res = "failed" /\ conns[c].hasError)
          => /\ conns[c].nError = 1
             /\ conns[c].nConnected = 0
             /\ ~InHandlers(c)
             /\ c \notin upollReg

\* C11: an endpoint whose registration in add_ev failed has been destroyed
\* exactly once, had no operation invoked on it after its destruction, is
\* not in the registry, and the registering operation reported failure.
C11_FailedRegistrationCleansUp ==
    /\ \A c \in Conns :
          conns[c].regFailed
            => /\ conns[c].dels = 1
               /\ ~conns[c].usedDeleted
               /\ ~InHandlers(c)
               /\ conns[c].ret \in {"false", "-1"}
    /\ \A u \in Udps :
          udp[u].regFailed
            => /\ udp[u].dels = 1
               /\ ~InHandlers(UdpEv(u))
               /\ udp[u].ret = "false"

\* C12: once udp_listen has returned failure, the caller's llarp_udp_io has
\* no impl, and no udp_close on it has touched a destroyed listener.
C12_FailedListenLeavesNoImpl ==
    \A u \in Udps :
        udp[u].ret = "false" => ~udp[u].impl /\ ~udp[u].usedDeleted

\* C13: an endpoint for which close_ev or udp_close returned success is
\* neither registered with upoll nor in the registry.
C13_ClosedIsGone ==
    \A ev \in closedOk : ev \notin upollReg /\ ~InHandlers(ev)

\* the operations other than the periodic tick that the tick invoked on ev
OpsOn(ev) ==
    LET cs == SelectSeq(calls, LAMBDA c : c.ev = ev /\ c.op # "tick")
    IN  [i \in 1 .. Len(cs) |-> cs[i].op]
\* the endpoints whose periodic tick the tick invoked, in order
Ticked ==
    LET cs == SelectSeq(calls, LAMBDA c : c.op = "tick")
    IN  [i \in 1 .. Len(cs) |-> cs[i].ev]
TickOutcome ==
    /\ \A i \in 1 .. Len(reported) :
          OpsOn(reported[i].ev) =
             IF "ERR" \in reported[i].bits THEN <<"error">>
             ELSE IF {"IN", "OUT"} \subseteq reported[i].bits
             THEN <<"read", "flush_write">>
             ELSE IF "IN" \in reported[i].bits THEN <<"read">>
             ELSE <<"flush_write">>
    /\ \A ev \in LoopEps :
          (\A i \in 1 .. Len(reported) : reported[i].ev # ev) => OpsOn(ev) = <<>>
    /\ \A i, j \in 1 .. Len(calls) :
          (i < j /\ calls[i].op = "tick") => calls[j].op = "tick"
    /\ Ticked = IF result = -1 THEN <<>> ELSE handlers
    /\ tickRet = IF result = -1 THEN -1 ELSE Len(reported)

\* C19: when a tick returns, each reported event has had error() alone
\* invoked when its error bit is set, else read iff readable followed by
\* flush_write iff writable; endpoints with no event had none of these; the
\* periodic ticks, one per registered endpoint, come after every dispatch and
\* only if the wait did not fail; and the tick returned the number of
\* reported events, or -1 when the wait failed.
C19_TickDispatch ==
    [][(tickpc = "dispatch" /\ tickpc' = "returned") => TickOutcome']_vars

C19_Witness ==
    /\ tickpc = "returned"
    /\ tickRet = 2
    /\ \E i, j \in 1 .. Len(reported) :
          /\ "ERR" \in reported[i].bits
          /\ reported[j].bits = {"IN", "OUT"}
    /\ Len(Ticked) = 2

\* C14: the queue never holds more than MaxSize entries; the queued entries
\* are consecutive pushes in push order; every push is queued, was walked by
\* a drain, or was refused; and while nothing has been drained the queue
\* holds the first pushes unaltered and every push beyond MaxSize was
\* refused (200 pushes: 128 entries, 72 refused).
C14_Capacity ==
    LET q == wq[1]
    IN  /\ q.len <= MaxSize
        /\ Len(q.buf) <= MaxSize
        /\ \A i \in 1 .. q.len : q.buf[i].tag = q.buf[1].tag + (i - 1)
        /\ nWrites = drained.taken + q.len + qdrops
        /\ drained.n = 0 =>
              /\ q.len = (IF nWrites < MaxSize THEN nWrites ELSE MaxSize)
              /\ qdrops = nWrites - q.len
              /\ \A i \in 1 .. q.len : q.buf[i].tag = i

C14_Witness ==
    /\ nWrites = 200
    /\ drained.n = 0
    /\ wq[1].len = 128
    /\ qdrops = 72
    /\ wq[1].buf[128].tag = 128

\* sojourn time, at the last drain, of the entry that drain found in slot i
Sojourn(i) == drained.t - drained.q0.buf[i].timestamp
Sunk == {drained.out[k] : k \in 1 .. Len(drained.out)}

\* C15: when every drain for a whole interval has found the entries waiting
\* the target delay or longer, the time from which the queue drops is that
\* interval's end, and a drain at or after it, the queue not yet dropping
\* and the head entry still at or above the target, drops the head entry;
\* every entry that waited less than the target is handed to the sink; and
\* a drain whose last entry waited less than the target leaves the queue out
\* of the dropping state.
C15_Pacing ==
    /\ drained.since # -1 => wq[1].firstAbove = drained.since + IntervalMs
    /\ drained.n > 0 =>
          /\ (/\ drained.q0.len > 0
              /\ ~drained.q0.dropping
              /\ drained.since0 # -1
              /\ drained.t >= drained.since0 + IntervalMs
              /\ Sojourn(1) >= DropMs) => 1 \notin Sunk
          /\ \A i \in 1 .. drained.q0.len : Sojourn(i) < DropMs => i \in Sunk
          /\ (drained.q0.len > 0 /\ Sojourn(drained.q0.len) < DropMs)
                => ~wq[1].dropping

C15_Witness ==
    /\ drained.n >= 2
    /\ drained.q0.dropping
    /\ drained.q0.len > 0
    /\ ~wq[1].dropping
    /\ Sunk # {}

\* C16: for a returned queue_write of a payload of n bytes that fits, whose
\* Emplace found the queue empty and not dropping: the flush_write that wrote
\* the payload fired the before_write hook first, if the endpoint has one,
\* and then issued the WriteFile of n bytes; exactly one OS write has been
\* issued for the payload, of n bytes; and the call itself fired the hook
\* first and then issued that write, or fired the hook alone when a worker's
\* drain had already written the payload.
C16_WriteIssuedOnce ==
    (qlog.ep # 0 /\ ~InQueueWrite /\ qlog.n <= EV_WRITE_BUF_SZ
     /\ qlog.len0 = 0 /\ ~qlog.dropping0)
      => LET hook == IF before_write[qlog.ep]
                     THEN <<[op |-> "before_write", sz |-> 0]>> ELSE <<>>
             write == <<[op |-> "WriteFile", sz |-> qlog.n]>>
             ws == {id \in PktIds : pkts[id].write /\ pkts[id].tag = qlog.tag}
         IN  /\ qlog.issue = hook \o write
             /\ qlog.trace \in {hook \o write, hook}
             /\ Cardinality(ws) = 1
             /\ \A id \in ws : pkts[id].sz = qlog.n /\ pkts[id].ep = qlog.ep

C16_Witness ==
    /\ qlog.ep # 0
    /\ ~InQueueWrite
    /\ before_write[qlog.ep]
    /\ qlog.n = EV_WRITE_BUF_SZ
    /\ qlog.len0 = 0
    /\ qlog.trace = <<[op |-> "before_write", sz |-> 0],
                      [op |-> "WriteFile", sz |-> EV_WRITE_BUF_SZ]>>
    /\ qlog.issue = qlog.trace

\* C17: a queue_write of a payload larger than the entry buffer issues no
\* WriteFile, of any length.
C17_OversizeDropped ==
    (qlog.n > EV_WRITE_BUF_SZ /\ ~InQueueWrite)
      => \A k \in 1 .. Len(qlog.trace) : qlog.trace[k].op # "WriteFile"

\* C18: no two threads are inside Emplace or Process of the same endpoint's
\* queue at the same time.
C18_QueueAccessSerialized == \A e \in Eps : Cardinality(inq[e]) <= 1

\* C20: while a worker is inside recvpkt with the payload in readbuf, no
\* read into that endpoint's readbuf is pending.
ReadsPending(e) ==
    Cardinality({id \in PktIds :
                   pkts[id].ep = e /\ ~pkts[id].write /\ pkts[id].st = "pending"})
C20_NoReadWhileDelivering ==
    \A w \in Workers :
        wpc[w] = "recvpkt" => ReadsPending(pkts[cur[w]].ep) = 0

====
